---------------------------- MODULE Spec2Model ----------------------------
(***************************************************************************)
(* A model of src/src/BufferStream.js: the BufferStream cursor over an     *)
(* ArrayBuffer, with its typed writes and reads, checkSize growth,         *)
(* concat, getBuffer, more, reset, end and toEnd.                          *)
(*                                                                         *)
(* ArrayBuffers are objects of a heap (heap: id -> bytes), so that         *)
(* `this.buffer = dst`, `buffer.slice(..)` and a write through the         *)
(* DataView are told apart: a slice is a new object, a DataView write      *)
(* changes the object every holder sees.                                   *)
(*                                                                         *)
(* JavaScript numbers that the code can make half-integral (offset, size,  *)
(* a step: writeHex computes blen = len / 2) are held doubled: a value x   *)
(* of the program is the integer Unit * x of the model.  Byte indexes and  *)
(* buffer lengths are whole numbers of bytes.                              *)
(*                                                                         *)
(* Strings are sequences of UTF-16 code units ("1a" is <<49, 97>>).        *)
(* writeFloat/readFloat/writeDouble/readDouble are outside the model       *)
(* (IEEE-754 encoding); their cursor arithmetic is that of the 32-bit      *)
(* integer write and read.                                                 *)
(***************************************************************************)
EXTENDS Integers, Sequences, FiniteSets, TLC

VARIABLES
    heap,       \* ArrayBuffer id -> sequence of bytes (the live objects)
    cursor,     \* stream name -> [buffer, offset, size, isLittleEndian]
    held,       \* what the caller keeps of a returned ArrayBuffer or
                \* Uint8Array: a set of [buffer, byteOffset, length]
    last,       \* the last call: [op, self, arg, ok, ret]
    high        \* stream name -> the highest offset a call has left it at

\* The state.  Two calls are told apart by name and outcome before their
\* argument and result are compared: those differ in type from call to call.
vars == <<heap, cursor, held, high, last.op, last.ok, last>>

\* Largest buffer capacity (bytes) a call may produce in a one-stream run.
MaxCap == 4

\* Largest buffer capacity (bytes) in the runs that hold two streams, or a
\* stream and a returned buffer.
MaxShared == 3

\* offset, size and steps are held in units of 1/Unit byte.
Unit == 2

B(n) == Unit * n

\* ToIndex / ToIntegerOrInfinity of a non-negative number: truncation.
ToIndex(x) == x \div Unit

Max(x, y) == IF x >= y THEN x ELSE y

Min(x, y) == IF x <= y THEN x ELSE y

Reverse(s) == [i \in 1..Len(s) |-> s[Len(s) + 1 - i]]

Zeros(n) == [i \in 1..n |-> 0]

World == [heap |-> heap, cursor |-> cursor, held |-> held]

Ok(w, ret) == [w |-> w, ok |-> TRUE, ret |-> ret]

Threw(w, e) == [w |-> w, ok |-> FALSE, ret |-> e]

Bytes(w, c) == w.heap[w.cursor[c].buffer]

byteLength(w, c) == Len(Bytes(w, c))

\* new ArrayBuffer(..): the id of a new object.
FreshId(h) == CHOOSE i \in 1..(Cardinality(DOMAIN h) + 1) : i \notin DOMAIN h

NewArrayBuffer(w, bytes) ==
    LET id == FreshId(w.heap)
    IN  [w |-> [w EXCEPT !.heap = w.heap @@ (id :> bytes)], id |-> id]

----------------------------------------------------------------------------
(* Values handed to the numeric writers, and toInt.                        *)

Num(n) == [type |-> "number", num |-> n, nan |-> FALSE, str |-> <<>>]

NaN == [type |-> "number", num |-> 0, nan |-> TRUE, str |-> <<>>]

Str(s) == [type |-> "string", num |-> 0, nan |-> FALSE, str |-> s]

IsDigit(ch) == ch >= 48 /\ ch <= 57

RECURSIVE DigitsValue(_)
DigitsValue(s) ==
    IF s = <<>> THEN 0
    ELSE 10 * DigitsValue(SubSeq(s, 1, Len(s) - 1)) + (s[Len(s)] - 48)

\* Number(s) of a string of the model's alphabet: "" is 0, a run of decimal
\* digits is its value, anything else is NaN.
StringToNumber(s) ==
    IF \A i \in 1..Len(s) : IsDigit(s[i]) THEN Num(DigitsValue(s)) ELSE NaN

\* null, a boolean and the empty array convert to a number (0, 0 or 1, 0);
\* undefined and a plain object convert to NaN.
Null == [type |-> "null", num |-> 0, nan |-> FALSE, str |-> <<>>]

Undefined == [type |-> "undefined", num |-> 0, nan |-> TRUE, str |-> <<>>]

Bool(b) == [type |-> "boolean", num |-> IF b THEN 1 ELSE 0, nan |-> FALSE, str |-> <<>>]

EmptyArray == [type |-> "array", num |-> 0, nan |-> FALSE, str |-> <<>>]

Object == [type |-> "object", num |-> 0, nan |-> TRUE, str |-> <<>>]

ToNumber(val) ==
    IF val.type = "string" THEN StringToNumber(val.str)
    ELSE IF val.nan THEN NaN
    ELSE Num(val.num)

\* value || "": false, 0, NaN, "", null and undefined are falsy.
Falsy(val) ==
    \/ val.type \in {"null", "undefined"}
    \/ val.type = "boolean" /\ val.num = 0
    \/ val.type = "number" /\ (val.nan \/ val.num = 0)
    \/ val.type = "string" /\ val.str = <<>>

isNaN(val) == ToNumber(val).nan

\* parseInt(s) of a string that Number() accepts: its digits, NaN for "".
parseInt(s) ==
    IF s # <<>> /\ \A i \in 1..Len(s) : IsDigit(s[i])
    THEN Num(DigitsValue(s)) ELSE NaN

toInt(val) ==
    IF isNaN(val) THEN [throws |-> TRUE, val |-> NaN]
    ELSE IF val.type = "string" THEN [throws |-> FALSE, val |-> parseInt(val.str)]
    ELSE [throws |-> FALSE, val |-> val]

----------------------------------------------------------------------------
(* DataView encode and decode.                                             *)

RECURSIVE LittleBytes(_, _)
LittleBytes(n, width) ==
    IF width = 0 THEN <<>>
    ELSE <<n % 256>> \o LittleBytes(n \div 256, width - 1)

\* DataView writes that ignore the littleEndian flag.
EncodeBigEndian(val, width, littleEndian) ==
    LET n == IF ToNumber(val).nan THEN 0 ELSE ToNumber(val).num
    IN  Reverse(LittleBytes(n, width))

\* The bytes setUint<8w>/setInt<8w> store for a number: NaN stores 0, an
\* integer is taken modulo 2^(8 width) (two's complement for a negative
\* one: % and \div round down, so LittleBytes of -1 is 255, 255, ..).
Encode(val, width, littleEndian) ==
    LET n == IF ToNumber(val).nan THEN 0 ELSE ToNumber(val).num
    IN  IF littleEndian THEN LittleBytes(n, width)
        ELSE Reverse(LittleBytes(n, width))

RECURSIVE BigValue(_)
BigValue(bytes) ==
    IF bytes = <<>> THEN 0
    ELSE 256 * BigValue(SubSeq(bytes, 1, Len(bytes) - 1)) + bytes[Len(bytes)]

DecodeUint(bytes, littleEndian) ==
    IF littleEndian THEN BigValue(Reverse(bytes)) ELSE BigValue(bytes)

\* view.set<Type>(byteOffset, ..): RangeError unless the bytes fit the
\* buffer; the write changes the ArrayBuffer object in place.
viewSet(w, c, byteOffset, bytes) ==
    LET id == w.cursor[c].buffer
        at == ToIndex(byteOffset)
        old == w.heap[id]
    IN  IF at + Len(bytes) > Len(old) THEN Threw(w, "RangeError")
        ELSE Ok([w EXCEPT !.heap[id] =
                    [i \in 1..Len(old) |->
                        IF i > at /\ i <= at + Len(bytes) THEN bytes[i - at]
                        ELSE old[i]]], 0)

\* view.get<Type>(byteOffset, ..): the bytes read, or a RangeError.
viewGet(w, c, byteOffset, width) ==
    LET at == ToIndex(byteOffset)
        old == Bytes(w, c)
    IN  IF at + width > Len(old) THEN Threw(w, "RangeError")
        ELSE Ok(w, SubSeq(old, at + 1, at + width))

----------------------------------------------------------------------------
(* BufferStream                                                            *)

\* new WriteBufferStream(): an empty ArrayBuffer, offset 0, big-endian, size 0.
WriteBufferStream(id) ==
    [buffer |-> id, offset |-> 0, size |-> 0, isLittleEndian |-> FALSE]

\* new ReadBufferStream(buffer): size is the buffer's byteLength.
ReadBufferStream(id, len) ==
    [buffer |-> id, offset |-> 0, size |-> B(len), isLittleEndian |-> FALSE]

\* checkSize with amortised growth: twice the size needed.
checkSizeDoubling(w, c, step) ==
    LET s == w.cursor[c]
        old == w.heap[s.buffer]
    IN  IF s.offset + step > B(Len(old))
        THEN LET dstSize == 2 * ToIndex(s.offset + step)
                 dst == [i \in 1..dstSize |-> IF i <= Len(old) THEN old[i] ELSE 0]
                 n == NewArrayBuffer(w, dst)
             IN  [n.w EXCEPT !.cursor[c].buffer = n.id]
        ELSE w

checkSize(w, c, step) ==
    LET s == w.cursor[c]
        old == w.heap[s.buffer]
    IN  IF s.offset + step > B(Len(old))
        THEN LET dstSize == ToIndex(s.offset + step)
                 dst == [i \in 1..dstSize |-> IF i <= Len(old) THEN old[i] ELSE 0]
                 n == NewArrayBuffer(w, dst)
             IN  [n.w EXCEPT !.cursor[c].buffer = n.id]
        ELSE w

\* increment with size always set to the new offset.
incrementSizeIsOffset(w, c, step) ==
    LET off == w.cursor[c].offset + step
    IN  Ok([w EXCEPT !.cursor[c].offset = off, !.cursor[c].size = off], step)

increment(w, c, step) ==
    LET s == w.cursor[c]
        off == s.offset + step
    IN  Ok([w EXCEPT !.cursor[c].offset = off,
                     !.cursor[c].size = IF off > s.size THEN off ELSE s.size],
           step)

\* The body shared by writeUint8 .. writeInt32: checkSize, then toInt (which
\* may throw), then the DataView write, then increment.
writeInteger(w, c, width, value) ==
    LET w1 == checkSize(w, c, B(width))
        n == toInt(value)
    IN  IF n.throws THEN Threw(w1, "Not a number")
        ELSE LET r == viewSet(w1, c, w1.cursor[c].offset,
                              Encode(n.val, width, w1.cursor[c].isLittleEndian))
             IN  IF r.ok THEN increment(r.w, c, B(width)) ELSE r

writeUint8(w, c, value) == writeInteger(w, c, 1, value)

writeInt8(w, c, value) == writeInteger(w, c, 1, value)

writeUint16(w, c, value) == writeInteger(w, c, 2, value)

writeInt16(w, c, value) == writeInteger(w, c, 2, value)

writeUint32(w, c, value) == writeInteger(w, c, 4, value)

writeInt32(w, c, value) == writeInteger(w, c, 4, value)

\* value >> 16 and value & 0xffff work on ToInt32(value): NaN is 0.
ToInt32(val) == IF ToNumber(val).nan THEN 0 ELSE ToNumber(val).num

\* writeTwoUint16s as one 32-bit write: the byte order then also swaps the
\* two words.
writeTwoUint16sAsUint32(w, c, value) == writeInteger(w, c, 4, value)

writeTwoUint16s(w, c, value) ==
    LET w1 == checkSize(w, c, B(4))
        first == toInt(Num(ToInt32(value) \div 65536))
        second == toInt(Num(ToInt32(value) % 65536))
        le == w1.cursor[c].isLittleEndian
        r1 == viewSet(w1, c, w1.cursor[c].offset, Encode(first.val, 2, le))
        r2 == viewSet(r1.w, c, w1.cursor[c].offset + B(2), Encode(second.val, 2, le))
    IN  IF ~r1.ok THEN r1
        ELSE IF ~r2.ok THEN r2
        ELSE increment(r2.w, c, B(4))

RECURSIVE DecimalDigits(_)
DecimalDigits(n) ==
    IF n < 10 THEN <<48 + n>> ELSE DecimalDigits(n \div 10) \o <<48 + (n % 10)>>

\* toBinaryArray: a number is first printed in decimal, anything that is
\* not a string gives no bytes, a string gives its char codes.
toBinaryArray(val) ==
    IF val.type = "number" THEN DecimalDigits(val.num)
    ELSE IF val.type # "string" THEN <<>>
    ELSE val.str

\* for (i = 0; i < bytelen; i++) { view.setUint8(startOffset, bin[i]); startOffset++ }
RECURSIVE writeStringLoop(_, _, _, _, _)
writeStringLoop(w, c, bin, i, startOffset) ==
    IF i > Len(bin) THEN Ok(w, 0)
    ELSE LET r == viewSet(w, c, startOffset, <<bin[i] % 256>>)
         IN  IF r.ok THEN writeStringLoop(r.w, c, bin, i + 1, startOffset + B(1))
             ELSE r

writeString(w, c, value) ==
    LET v == IF Falsy(value) THEN Str(<<>>) ELSE value
        bin == toBinaryArray(v)
        w1 == checkSize(w, c, B(Len(bin)))
        r == writeStringLoop(w1, c, bin, 1, w1.cursor[c].offset)
    IN  IF r.ok THEN increment(r.w, c, B(Len(bin))) ELSE r

\* parseInt(ch, 16) of one character: its digit value, or NaN.
parseInt16(ch) ==
    IF ch >= 48 /\ ch <= 57 THEN Num(ch - 48)
    ELSE IF ch >= 97 /\ ch <= 102 THEN Num(ch - 87)
    ELSE IF ch >= 65 /\ ch <= 70 THEN Num(ch - 55)
    ELSE NaN

\* One round of writeHex's loop at string index i (from 0): the byte stored.
\* The last digit of an odd-length string is stored alone, unshifted;
\* (code << 4) | nextCode takes NaN as 0.
hexCode(value, i) ==
    LET code == parseInt16(value[i + 1])
    IN  IF i = Len(value) - 1 THEN code
        ELSE Num(ToInt32(code) * 16 + ToInt32(parseInt16(value[i + 2])))

RECURSIVE writeHexLoop(_, _, _, _, _)
writeHexLoop(w, c, value, i, startOffset) ==
    IF i >= Len(value) THEN Ok(w, 0)
    ELSE LET r == viewSet(w, c, startOffset, Encode(hexCode(value, i), 1, FALSE))
         IN  IF r.ok THEN writeHexLoop(r.w, c, value, i + 2, startOffset + B(1))
             ELSE r

\* blen = len / 2 is len units: half a byte per digit.
writeHex(w, c, value) ==
    LET blen == B(Len(value)) \div 2
        startOffset == w.cursor[c].offset
        w1 == checkSize(w, c, blen)
        r == writeHexLoop(w1, c, value, 0, startOffset)
    IN  IF r.ok THEN increment(r.w, c, blen) ELSE r

----------------------------------------------------------------------------
(* Reads                                                                   *)

\* Two's complement: the most significant byte is signed.
DecodeInt(bytes, littleEndian) ==
    LET be == IF littleEndian THEN Reverse(bytes) ELSE bytes
        top == IF be[1] >= 128 THEN be[1] - 256 ELSE be[1]
    IN  top * (256 ^ (Len(be) - 1)) + BigValue(SubSeq(be, 2, Len(be)))

\* An unsigned 32-bit value as its two 16-bit halves (value = hi * 65536 + lo).
DecodeUint32(bytes, littleEndian) ==
    LET be == IF littleEndian THEN Reverse(bytes) ELSE bytes
    IN  [hi |-> BigValue(SubSeq(be, 1, 2)), lo |-> BigValue(SubSeq(be, 3, 4))]

readUint32(w, c) ==
    LET g == viewGet(w, c, w.cursor[c].offset, 4)
    IN  IF ~g.ok THEN g
        ELSE Ok(increment(w, c, B(4)).w, DecodeUint32(g.ret, w.cursor[c].isLittleEndian))

readUint16(w, c) ==
    LET g == viewGet(w, c, w.cursor[c].offset, 2)
    IN  IF ~g.ok THEN g
        ELSE Ok(increment(w, c, B(2)).w, DecodeUint(g.ret, w.cursor[c].isLittleEndian))

readUint8(w, c) ==
    LET g == viewGet(w, c, w.cursor[c].offset, 1)
    IN  IF ~g.ok THEN g
        ELSE Ok(increment(w, c, B(1)).w, DecodeUint(g.ret, FALSE))

readInt16(w, c) ==
    LET g == viewGet(w, c, w.cursor[c].offset, 2)
    IN  IF ~g.ok THEN g
        ELSE Ok(increment(w, c, B(2)).w, DecodeInt(g.ret, w.cursor[c].isLittleEndian))

readInt32(w, c) ==
    LET g == viewGet(w, c, w.cursor[c].offset, 4)
    IN  IF ~g.ok THEN g
        ELSE Ok(increment(w, c, B(4)).w, DecodeInt(g.ret, w.cursor[c].isLittleEndian))

\* The class defines no readInt8: stream.readInt8 is undefined and calling it
\* throws a TypeError before any state is read.
readInt8(w, c) == Threw(w, "TypeError")

\* readUint8Array returning a copy of the bytes in an ArrayBuffer of its own.
readUint8ArrayCopy(w, c, length) ==
    LET at == ToIndex(w.cursor[c].offset)
    IN  IF at + length > byteLength(w, c) THEN Threw(w, "RangeError")
        ELSE LET n == NewArrayBuffer(w, SubSeq(Bytes(w, c), at + 1, at + length))
             IN  Ok(increment(n.w, c, B(length)).w,
                    [buffer |-> n.id, byteOffset |-> 0, length |-> length])

\* new Uint8Array(this.buffer, this.offset, length): a view on the stream's
\* own ArrayBuffer, or a RangeError when it would pass the end.
readUint8Array(w, c, length) ==
    LET at == ToIndex(w.cursor[c].offset)
    IN  IF at + length > byteLength(w, c) THEN Threw(w, "RangeError")
        ELSE Ok(increment(w, c, B(length)).w,
                [buffer |-> w.cursor[c].buffer, byteOffset |-> at, length |-> length])

\* while (i++ < sixlen) { arr[i] = view.getUint16(offset, ..); offset += 2 }
\* i is compared, then incremented, then used as the index; a store past the
\* end of the Uint16Array is dropped.  arr is 1-based here: arr[i] of the
\* program is arr[i + 1].
RECURSIVE readUint16ArrayLoop(_, _, _, _, _)
readUint16ArrayLoop(w, c, sixlen, arr, i) ==
    IF ~(B(i) < sixlen) THEN Ok(w, arr)
    ELSE LET j == i + 1
             g == viewGet(w, c, w.cursor[c].offset, 2)
             val == DecodeUint(g.ret, w.cursor[c].isLittleEndian)
             arr2 == IF j < Len(arr) THEN [arr EXCEPT ![j + 1] = val] ELSE arr
         IN  IF ~g.ok THEN g
             ELSE readUint16ArrayLoop(
                      [w EXCEPT !.cursor[c].offset = w.cursor[c].offset + B(2)],
                      c, sixlen, arr2, j)

\* sixlen = length / 2, held in units.
readUint16Array(w, c, length) ==
    LET sixlen == B(length) \div 2
    IN  readUint16ArrayLoop(w, c, sixlen, Zeros(ToIndex(sixlen)), 0)

RECURSIVE readStringLoop(_, _, _, _, _)
readStringLoop(w, c, numOfMulti, string, index) ==
    IF ~(index < numOfMulti) THEN Ok(w, string)
    ELSE LET r == readUint8(w, c)
         IN  IF ~r.ok THEN r
             ELSE readStringLoop(r.w, c, numOfMulti, string \o <<r.ret>>, index + 1)

readString(w, c, length) == readStringLoop(w, c, length, <<>>, 0)

HexDigitChar(d) == IF d < 10 THEN 48 + d ELSE 87 + d

\* Number.prototype.toString(16) of a byte: no leading zero.
toString16(n) ==
    IF n < 16 THEN <<HexDigitChar(n)>>
    ELSE <<HexDigitChar(n \div 16), HexDigitChar(n % 16)>>

RECURSIVE readHexLoop(_, _, _, _, _)
readHexLoop(w, c, length, hexString, i) ==
    IF ~(i < length) THEN Ok(w, hexString)
    ELSE LET r == readUint8(w, c)
         IN  IF ~r.ok THEN r
             ELSE readHexLoop(r.w, c, length, hexString \o toString16(r.ret), i + 1)

readHex(w, c, length) == readHexLoop(w, c, length, <<>>, 0)

----------------------------------------------------------------------------
(* Buffers and sub-ranges                                                  *)

\* An argument that may be absent.
Arg(n) == [given |-> TRUE, n |-> n]

NoArg == [given |-> FALSE, n |-> 0]

\* !x of a numeric argument: absent or 0.
Not(x) == ~x.given \/ x.n = 0

\* ArrayBuffer.prototype.slice(start, end) on non-negative arguments: both
\* are truncated and clamped to the length; absent means 0 and the length.
slice(bytes, start, end) ==
    LET first == IF start.given THEN Min(ToIndex(start.n), Len(bytes)) ELSE 0
        final == IF end.given THEN Min(ToIndex(end.n), Len(bytes)) ELSE Len(bytes)
    IN  SubSeq(bytes, first + 1, final)

getBuffer(w, c, start, end) ==
    LET dflt == Not(start) /\ Not(end)
        s == IF dflt THEN Arg(0) ELSE start
        e == IF dflt THEN Arg(w.cursor[c].size) ELSE end
        n == NewArrayBuffer(w, slice(Bytes(w, c), s, e))
    IN  Ok(n.w, n.id)

\* Uint8Array.prototype.set with the offset ignored: the source lands at 0.
typedArraySetAtZero(w, id, source, offset) ==
    LET old == w.heap[id]
    IN  IF Len(source) > Len(old) THEN Threw(w, "RangeError")
        ELSE Ok([w EXCEPT !.heap[id] =
                    [i \in 1..Len(old) |->
                        IF i <= Len(source) THEN source[i] ELSE old[i]]], 0)

\* Uint8Array.prototype.set(source, offset) on the ArrayBuffer id: a
\* RangeError unless the source fits; offset is truncated.
typedArraySet(w, id, source, offset) ==
    LET at == ToIndex(offset)
        old == w.heap[id]
    IN  IF at + Len(source) > Len(old) THEN Threw(w, "RangeError")
        ELSE Ok([w EXCEPT !.heap[id] =
                    [i \in 1..Len(old) |->
                        IF i > at /\ i <= at + Len(source) THEN source[i - at]
                        ELSE old[i]]], 0)

concat(w, c, stream) ==
    LET this == w.cursor[c]
        available == B(byteLength(w, c)) - this.offset
        size == w.cursor[stream].size
        src == getBuffer(w, stream, Arg(0), Arg(size))
        grown ==
            LET newbuf == NewArrayBuffer(src.w, Zeros(ToIndex(this.offset + size)))
                own == getBuffer(newbuf.w, c, Arg(0), Arg(this.offset))
                s1 == typedArraySet(own.w, newbuf.id, own.w.heap[own.ret], 0)
                s2 == typedArraySet(s1.w, newbuf.id, src.w.heap[src.ret], this.offset)
            IN  IF ~s1.ok THEN s1
                ELSE IF ~s2.ok THEN s2
                ELSE Ok([s2.w EXCEPT !.cursor[c].buffer = newbuf.id], 0)
        inPlace == typedArraySet(src.w, this.buffer, src.w.heap[src.ret], this.offset)
        r == IF size > available THEN grown ELSE inPlace
    IN  IF ~r.ok THEN r
        ELSE LET off == this.offset + size
                 w2 == [r.w EXCEPT !.cursor[c].offset = off, !.cursor[c].size = off]
             IN  Ok(w2, B(byteLength(w2, c)))

\* more() handing the parent's byte order to the stream it returns.
moreInheritsOrder(w, c, length) ==
    IF w.cursor[c].offset + B(length) > B(byteLength(w, c))
    THEN Threw(w, "Request more than currently allocated buffer")
    ELSE LET newBuf == NewArrayBuffer(w,
                 slice(Bytes(w, c), Arg(w.cursor[c].offset),
                       Arg(w.cursor[c].offset + B(length))))
             w2 == increment(newBuf.w, c, B(length)).w
         IN  Ok(w2, [ReadBufferStream(newBuf.id, Len(newBuf.w.heap[newBuf.id]))
                        EXCEPT !.isLittleEndian = w.cursor[c].isLittleEndian])

\* more() refusing a request that ends exactly at the capacity.
moreRefusesExactFit(w, c, length) ==
    IF w.cursor[c].offset + B(length) >= B(byteLength(w, c))
    THEN Threw(w, "Request more than currently allocated buffer")
    ELSE LET newBuf == NewArrayBuffer(w,
                 slice(Bytes(w, c), Arg(w.cursor[c].offset),
                       Arg(w.cursor[c].offset + B(length))))
             w2 == increment(newBuf.w, c, B(length)).w
         IN  Ok(w2, ReadBufferStream(newBuf.id, Len(newBuf.w.heap[newBuf.id])))

\* more() without the slice: the stream returned reads the parent's own
\* ArrayBuffer.
moreShared(w, c, length) ==
    IF w.cursor[c].offset + B(length) > B(byteLength(w, c))
    THEN Threw(w, "Request more than currently allocated buffer")
    ELSE Ok(increment(w, c, B(length)).w,
            ReadBufferStream(w.cursor[c].buffer, byteLength(w, c)))

\* The stream returned is left for the caller to name: ret is its record and
\* its ArrayBuffer is in the heap.
more(w, c, length) ==
    IF w.cursor[c].offset + B(length) > B(byteLength(w, c))
    THEN Threw(w, "Request more than currently allocated buffer")
    ELSE LET newBuf == NewArrayBuffer(w,
                 slice(Bytes(w, c), Arg(w.cursor[c].offset),
                       Arg(w.cursor[c].offset + B(length))))
             w2 == increment(newBuf.w, c, B(length)).w
         IN  Ok(w2, ReadBufferStream(newBuf.id, Len(newBuf.w.heap[newBuf.id])))

\* reset() that also forgets the written length.
resetAndForget(w, c) ==
    Ok([w EXCEPT !.cursor[c].offset = 0, !.cursor[c].size = 0], c)

reset(w, c) == Ok([w EXCEPT !.cursor[c].offset = 0], c)

end(w, c) == Ok(w, w.cursor[c].offset >= B(byteLength(w, c)))

toEnd(w, c) == Ok([w EXCEPT !.cursor[c].offset = B(byteLength(w, c))], 0)

setEndian(w, c, isLittle) == Ok([w EXCEPT !.cursor[c].isLittleEndian = isLittle], 0)

----------------------------------------------------------------------------
(* The state machine: one action per method call.                          *)

\* ArrayBuffer ids carry no meaning: after a call the live objects are
\* renumbered in the order stream "a", stream "b", the held buffer, and the
\* objects nothing refers to any more are dropped.
Names(w) == IF "b" \in DOMAIN w.cursor THEN <<"a", "b">> ELSE <<"a">>

Roots(w) ==
    [i \in 1..Len(Names(w)) |-> w.cursor[Names(w)[i]].buffer]
        \o (IF w.held = {} THEN <<>> ELSE <<(CHOOSE v \in w.held : TRUE).buffer>>)

Rank(w, id) ==
    CHOOSE i \in 1..Len(Roots(w)) :
        Roots(w)[i] = id /\ \A j \in 1..(i - 1) : Roots(w)[j] # id

Canonical(w) ==
    [heap |-> [k \in {Rank(w, Roots(w)[i]) : i \in 1..Len(Roots(w))} |->
                  w.heap[Roots(w)[k]]],
     cursor |-> [d \in DOMAIN w.cursor |->
                  [w.cursor[d] EXCEPT !.buffer = Rank(w, @)]],
     held |-> {[v EXCEPT !.buffer = Rank(w, @)] : v \in w.held}]

\* The calls that move the offset forward by what they consumed or produced.
Advancing ==
    {"writeUint8", "writeInt8", "writeUint16", "writeInt16", "writeUint32",
     "writeInt32", "writeTwoUint16s", "writeString", "writeHex", "readUint8",
     "readUint16", "readUint32", "readInt16", "readInt32", "readUint8Array",
     "readUint16Array", "readString", "readHex", "more", "concat"}

\* The step of a call of op on stream c with argument arg: w is the world
\* the method and its caller leave, ok whether it returned (ret) or threw
\* (ret names the error), made the streams the caller constructed in the
\* step, cap the bound on every stream's capacity.
Return(op, c, arg, w, ok, ret, made, cap) ==
    /\ \A d \in DOMAIN w.cursor : byteLength(w, d) <= cap
    /\ \E n \in {Canonical(w)} :
          /\ heap' = n.heap
          /\ cursor' = n.cursor
          /\ held' = n.held
    /\ last' = [op |-> op, self |-> c, arg |-> arg, ok |-> ok, ret |-> ret]
    /\ high' = [d \in DOMAIN w.cursor |->
                  IF d \in made THEN 0
                  ELSE IF d = c /\ op \in Advancing
                       THEN Max(high[d], w.cursor[d].offset)
                  ELSE high[d]]

Call(op, c, arg, r, cap) ==
    \E res \in {r} : Return(op, c, arg, res.w, res.ok, res.ret, {}, cap)

WriteUint8(c, V, cap) ==
    \E v \in V : Call("writeUint8", c, v, writeUint8(World, c, v), cap)

WriteInt8(c, V, cap) ==
    \E v \in V : Call("writeInt8", c, v, writeInt8(World, c, v), cap)

WriteUint16(c, V, cap) ==
    \E v \in V : Call("writeUint16", c, v, writeUint16(World, c, v), cap)

WriteTwoUint16s(c, V, cap) ==
    \E v \in V : Call("writeTwoUint16s", c, v, writeTwoUint16s(World, c, v), cap)

WriteInt16(c, V, cap) ==
    \E v \in V : Call("writeInt16", c, v, writeInt16(World, c, v), cap)

WriteUint32(c, V, cap) ==
    \E v \in V : Call("writeUint32", c, v, writeUint32(World, c, v), cap)

WriteInt32(c, V, cap) ==
    \E v \in V : Call("writeInt32", c, v, writeInt32(World, c, v), cap)

WriteString(c, V, cap) ==
    \E v \in V : Call("writeString", c, v, writeString(World, c, v), cap)

WriteHex(c, V, cap) ==
    \E v \in V : Call("writeHex", c, v, writeHex(World, c, v), cap)

ReadUint32(c, cap) == Call("readUint32", c, 0, readUint32(World, c), cap)

ReadUint16(c, cap) == Call("readUint16", c, 0, readUint16(World, c), cap)

ReadUint8(c, cap) == Call("readUint8", c, 0, readUint8(World, c), cap)

\* The bytes a Uint8Array view shows.
ViewBytes(h, v) == SubSeq(h[v.buffer], v.byteOffset + 1, v.byteOffset + v.length)

\* The caller reads the Uint8Array at once and keeps no reference to it.
ReadUint8Array(c, L, cap) ==
    \E n \in L :
        \E r \in {readUint8Array(World, c, n)} :
            Return("readUint8Array", c, n, r.w, r.ok,
                   IF r.ok THEN ViewBytes(r.w.heap, r.ret) ELSE r.ret, {}, cap)

ReadUint16Array(c, L, cap) ==
    \E n \in L : Call("readUint16Array", c, n, readUint16Array(World, c, n), cap)

ReadInt16(c, cap) == Call("readInt16", c, 0, readInt16(World, c), cap)

ReadInt32(c, cap) == Call("readInt32", c, 0, readInt32(World, c), cap)

ReadInt8(c, cap) == Call("readInt8", c, 0, readInt8(World, c), cap)


ReadString(c, L, cap) ==
    \E n \in L : Call("readString", c, n, readString(World, c, n), cap)

ReadHex(c, L, cap) ==
    \E n \in L : Call("readHex", c, n, readHex(World, c, n), cap)

Reset(c, cap) == Call("reset", c, 0, reset(World, c), cap)

End(c, cap) == Call("end", c, 0, end(World, c), cap)

ToEnd(c, cap) == Call("toEnd", c, 0, toEnd(World, c), cap)

SetEndian(c, cap) ==
    \E isLittle \in BOOLEAN :
        Call("setEndian", c, isLittle, setEndian(World, c, isLittle), cap)

----------------------------------------------------------------------------
(* Spec: one stream, new WriteBufferStream(), and every method that needs  *)
(* no second object.  The values written are 0 and the strings hold the    *)
(* character 0, so that the run covers every order of calls over offset,   *)
(* size and capacity.                                                      *)

\* 0, "0", and "x", which is no number.
Numbers == {Num(0), Str(<<48>>), Str(<<120>>)}

\* null, "\0" and "\0\0".
Strings == {Null, Str(<<0>>), Str(<<0, 0>>)}

\* "", "00", "0000" and the odd-length "0" and "000".
HexStrings == {<<>>, <<48, 48>>, <<48, 48, 48, 48>>, <<48>>, <<48, 48, 48>>}

Lengths == {0, 1, 2, 4}

Init ==
    /\ heap = (1 :> <<>>)
    /\ cursor = ("a" :> WriteBufferStream(1))
    /\ held = {}
    /\ last = [op |-> "new", self |-> "a", arg |-> 0, ok |-> TRUE, ret |-> 0]
    /\ high = ("a" :> 0)

Next ==
    \/ WriteUint8("a", Numbers, MaxCap)
    \/ WriteInt8("a", Numbers, MaxCap)
    \/ WriteUint16("a", Numbers, MaxCap)
    \/ WriteTwoUint16s("a", Numbers, MaxCap)
    \/ WriteInt16("a", Numbers, MaxCap)
    \/ WriteUint32("a", Numbers, MaxCap)
    \/ WriteInt32("a", Numbers, MaxCap)
    \/ WriteString("a", Strings, MaxCap)
    \/ WriteHex("a", HexStrings, MaxCap)
    \/ ReadUint32("a", MaxCap)
    \/ ReadUint16("a", MaxCap)
    \/ ReadUint8("a", MaxCap)
    \/ ReadUint8Array("a", Lengths, MaxCap)
    \/ ReadUint16Array("a", Lengths, MaxCap)
    \/ ReadInt16("a", MaxCap)
    \/ ReadInt32("a", MaxCap)
    \/ ReadString("a", Lengths, MaxCap)
    \/ ReadHex("a", Lengths, MaxCap)
    \/ Reset("a", MaxCap)
    \/ End("a", MaxCap)
    \/ ToEnd("a", MaxCap)
    \/ SetEndian("a", MaxCap)

Spec == Init /\ [][Next]_vars

----------------------------------------------------------------------------
(* SpecData: one stream and the calls whose result depends on the bytes.   *)

\* 0xAA and 0xBB.
DataBytes == {Num(170), Num(187)}

\* 0xAABB.
DataWords == {Num(43707)}

\* "aa", "00aa", "aabb" and the odd-length "0".
DataHex == {<<97, 97>>, <<48, 48, 97, 97>>, <<97, 97, 98, 98>>, <<48>>}

DataLengths == {1, 2}

NextData ==
    \/ WriteUint8("a", DataBytes, MaxShared)
    \/ WriteUint16("a", DataWords, MaxShared)
    \/ WriteHex("a", DataHex, MaxShared)
    \/ ReadHex("a", DataLengths, MaxShared)
    \/ ReadUint8Array("a", DataLengths, MaxShared)
    \/ ReadUint16Array("a", {2}, MaxShared)
    \/ Reset("a", MaxShared)
    \/ SetEndian("a", MaxShared)

SpecData == Init /\ [][NextData]_vars

----------------------------------------------------------------------------
(* SpecStreams: two streams, each new WriteBufferStream(), with concat and *)
(* more between them.  The stream more() returns takes the other name:     *)
(* b = a.more(n).  No call here makes an offset half-integral.             *)

Other(c) == IF c = "a" THEN "b" ELSE "a"

Concat(c, cap) == Call("concat", c, Other(c), concat(World, c, Other(c)), cap)

More(c, L, cap) ==
    \E n \in L :
        \E r \in {more(World, c, n)} :
            IF r.ok
            THEN Return("more", c, n, [r.w EXCEPT !.cursor[Other(c)] = r.ret],
                        TRUE, Other(c), {Other(c)}, cap)
            ELSE Return("more", c, n, r.w, FALSE, r.ret, {}, cap)

InitStreams ==
    /\ heap = (1 :> <<>>) @@ (2 :> <<>>)
    /\ cursor = ("a" :> WriteBufferStream(1)) @@ ("b" :> WriteBufferStream(2))
    /\ held = {}
    /\ last = [op |-> "new", self |-> "a", arg |-> 0, ok |-> TRUE, ret |-> 0]
    /\ high = ("a" :> 0) @@ ("b" :> 0)

NextStreams ==
    \/ \E c \in {"a", "b"} :
        \/ WriteUint8(c, DataBytes, MaxShared)
        \/ Reset(c, MaxShared)
        \/ Concat(c, MaxShared)
    \/ More("a", {0, 1, 2}, MaxShared)

SpecStreams == InitStreams /\ [][NextStreams]_vars

----------------------------------------------------------------------------
(* SpecViews: one stream and the ArrayBuffer its caller keeps from the     *)
(* last getBuffer call.                                                    *)

\* getBuffer(), (0, 0), (0, 1), (1, 1), (1, 2) and (0, 2).
Ranges ==
    {<<NoArg, NoArg>>, <<Arg(0), Arg(0)>>, <<Arg(0), Arg(B(1))>>,
     <<Arg(B(1)), Arg(B(1))>>, <<Arg(B(1)), Arg(B(2))>>, <<Arg(0), Arg(B(2))>>}

GetBuffer(c, A, cap) ==
    \E a \in A :
        \E r \in {getBuffer(World, c, a[1], a[2])} :
            Return("getBuffer", c, a,
                   [r.w EXCEPT !.held = {[buffer |-> r.ret, byteOffset |-> 0,
                                          length |-> Len(r.w.heap[r.ret])]}],
                   r.ok, r.w.heap[r.ret], {}, cap)

NextViews ==
    \/ WriteUint8("a", DataBytes, MaxShared)
    \/ Reset("a", MaxShared)
    \/ GetBuffer("a", Ranges, MaxShared)

SpecViews == Init /\ [][NextViews]_vars

----------------------------------------------------------------------------
(* SpecRound: one stream, the six integer writes with values at the ends   *)
(* of each type's range, and the integer reads.                            *)

Uint8Values == {255}

Int8Values == {-128}

\* 0xFFFF.
Uint16Values == {65535}

\* -0x8000.
Int16Values == {-32768}

\* 0x01020304 and 0x7FFFFFFF.
Uint32Values == {16909060, 2147483647}

\* -0x80000000 and 0x01020304.
Int32Values == {-2147483647 - 1, 16909060}

Nums(S) == {Num(n) : n \in S}

NextRound ==
    \/ WriteUint8("a", Nums(Uint8Values), MaxCap)
    \/ WriteInt8("a", Nums(Int8Values), MaxCap)
    \/ WriteUint16("a", Nums(Uint16Values), MaxCap)
    \/ WriteInt16("a", Nums(Int16Values), MaxCap)
    \/ WriteUint32("a", Nums(Uint32Values), MaxCap)
    \/ WriteInt32("a", Nums(Int32Values), MaxCap)
    \/ ReadUint8("a", MaxCap)
    \/ ReadInt8("a", MaxCap)
    \/ ReadUint16("a", MaxCap)
    \/ ReadInt16("a", MaxCap)
    \/ ReadUint32("a", MaxCap)
    \/ ReadInt32("a", MaxCap)
    \/ Reset("a", MaxCap)
    \/ SetEndian("a", MaxCap)

SpecRound == Init /\ [][NextRound]_vars

----------------------------------------------------------------------------
(* SpecCoerce: one stream and the integer writes over every kind of        *)
(* argument toInt tells apart.                                             *)

\* 7, "7", null, undefined, true, "", "x", [] and {}.
Coercions ==
    {Num(7), Str(<<55>>), Null, Undefined, Bool(TRUE), Str(<<>>),
     Str(<<120>>), EmptyArray, Object}

NextCoerce ==
    \/ WriteUint8("a", Coercions, MaxCap)
    \/ WriteInt8("a", Coercions, MaxCap)
    \/ WriteUint16("a", Coercions, MaxCap)
    \/ WriteInt16("a", Coercions, MaxCap)
    \/ WriteUint32("a", Coercions, MaxCap)
    \/ WriteInt32("a", Coercions, MaxCap)
    \/ Reset("a", MaxCap)
    \/ SetEndian("a", MaxCap)

SpecCoerce == Init /\ [][NextCoerce]_vars

----------------------------------------------------------------------------
(* SpecConcat: a stream that writes, rewinds and appends a second, fully   *)
(* written one, up to the five bytes of a 3-byte stream appended to a      *)
(* 2-byte one.                                                             *)

\* Largest buffer capacity (bytes) in the concat runs.
MaxConcat == 5

NextConcat ==
    \/ WriteUint8("a", {Num(170)}, MaxConcat)
    \/ WriteUint8("b", DataBytes, MaxConcat)
    \/ Reset("a", MaxConcat)
    \/ Concat("a", MaxConcat)

SpecConcat == InitStreams /\ [][NextConcat]_vars

----------------------------------------------------------------------------
(* SpecWords: one stream, writeTwoUint16s and writeUint32 of the same      *)
(* values in both byte orders, and the 16-bit reads that take the words    *)
(* back.                                                                   *)

\* 0x0001FFFF, 0x12345678, 0x00010001 (two equal words) and 0x7FFF8000.
WordPairs == {131071, 305419896, 65537, 2147450880}

\* 0x1234 and 0xAABB.
Words == {4660, 43707}

NextWords ==
    \/ WriteTwoUint16s("a", Nums(WordPairs), MaxCap)
    \/ WriteUint32("a", Nums(WordPairs), MaxCap)
    \/ WriteUint16("a", Nums(Words), MaxCap)
    \/ ReadUint16("a", MaxCap)
    \/ Reset("a", MaxCap)
    \/ SetEndian("a", MaxCap)

SpecWords == Init /\ [][NextWords]_vars

----------------------------------------------------------------------------
(* SpecGrow: a new WriteBufferStream a that is only appended to (numeric   *)
(* writes of numbers, writeString, writeHex of an even number of digits,   *)
(* concat of b), and a second stream b for it to append.                   *)

\* null, "A" and "AB".
GrowStrings == {Null, Str(<<65>>), Str(<<65, 66>>)}

\* "", "aa" and "aabb".
EvenHex == {<<>>, <<97, 97>>, <<97, 97, 98, 98>>}

NextGrow ==
    \/ WriteUint8("a", {Num(170)}, MaxCap)
    \/ WriteInt8("a", {Num(-1)}, MaxCap)
    \/ WriteUint16("a", {Num(43707)}, MaxCap)
    \/ WriteInt16("a", {Num(-2)}, MaxCap)
    \/ WriteUint32("a", {Num(16909060)}, MaxCap)
    \/ WriteInt32("a", {Num(-3)}, MaxCap)
    \/ WriteTwoUint16s("a", {Num(131071)}, MaxCap)
    \/ WriteString("a", GrowStrings, MaxCap)
    \/ WriteHex("a", EvenHex, MaxCap)
    \/ Concat("a", MaxCap)
    \/ WriteUint8("b", {Num(187)}, MaxCap)
    \/ Reset("b", MaxCap)

SpecGrow == InitStreams /\ [][NextGrow]_vars

----------------------------------------------------------------------------
(* SpecAlias: stream a, whose caller keeps the Uint8Array of the last      *)
(* readUint8Array call, and stream b for a to append.                      *)

\* The caller keeps the array returned; ret shows its bytes at the return.
ReadUint8ArrayKept(c, L, cap) ==
    \E n \in L :
        \E r \in {readUint8Array(World, c, n)} :
            IF r.ok
            THEN Return("readUint8Array", c, n, [r.w EXCEPT !.held = {r.ret}],
                        TRUE, ViewBytes(r.w.heap, r.ret), {}, cap)
            ELSE Return("readUint8Array", c, n, r.w, FALSE, r.ret, {}, cap)

NextAlias ==
    \/ WriteUint8("a", DataBytes, MaxShared)
    \/ Reset("a", MaxShared)
    \/ ReadUint8ArrayKept("a", DataLengths, MaxShared)
    \/ Concat("a", MaxShared)
    \/ WriteUint8("b", {Num(187)}, MaxShared)

SpecAlias == InitStreams /\ [][NextAlias]_vars

----------------------------------------------------------------------------
(* SpecOrder: stream a in either byte order, the sub-cursor b = a.more(n)  *)
(* and the 16- and 32-bit reads on both.                                   *)

NextOrder ==
    \/ WriteUint16("a", Nums(Words), MaxCap)
    \/ More("a", {2, 4}, MaxCap)
    \/ Reset("a", MaxCap)
    \/ \E c \in {"a", "b"} :
        \/ SetEndian(c, MaxCap)
        \/ ReadUint16(c, MaxCap)
        \/ ReadUint32(c, MaxCap)

SpecOrder == InitStreams /\ [][NextOrder]_vars

----------------------------------------------------------------------------
(* The claims.  A claim about one call is a property of every step: last'  *)
(* names the call, the unprimed variables are the state before it and the  *)
(* primed ones the state after it.                                         *)

BytesOf(h, cur, c) == h[cur[c].buffer]

IntWrites ==
    {"writeUint8", "writeInt8", "writeUint16", "writeInt16", "writeUint32",
     "writeInt32"}

WidthOf(op) ==
    IF op \in {"writeUint8", "writeInt8"} THEN 1
    ELSE IF op \in {"writeUint16", "writeInt16"} THEN 2
    ELSE 4

IsNumber(v) == v.type = "number" /\ ~v.nan

\* C1: a fixed-width integer write of width w called with a number, in any
\* reachable state, returns w, moves offset forward by w and leaves
\* size = max(size before, offset after).
C1_FixedWidthWrite ==
    [][(last'.op \in IntWrites /\ IsNumber(last'.arg)) =>
          LET c == last'.self
              w == WidthOf(last'.op)
          IN  /\ last'.ok
              /\ last'.ret = B(w)
              /\ cursor'[c].offset = cursor[c].offset + B(w)
              /\ cursor'[c].size = Max(cursor[c].size, cursor'[c].offset)]_vars

\* A 16-bit write that landed inside the written region (after a reset):
\* size stays above the new offset.
C1_Witness ==
    /\ last.op = "writeUint16"
    /\ last.ok
    /\ IsNumber(last.arg)
    /\ cursor["a"].offset < cursor["a"].size


WriteOps == IntWrites \cup {"writeHex"}

\* The width of a write in half-bytes: w bytes for an integer write, half a
\* byte per digit for writeHex.
WidthUnits(op, arg) == IF op = "writeHex" THEN Len(arg) ELSE B(WidthOf(op))

\* C2: a write of w bytes at offset o never fails for lack of space and
\* leaves every byte at a position p < old capacity outside [o, o + w) as it
\* was, with or without a reallocation; from an empty write cursor, writing
\* 0xAA then 0xBB leaves the buffer holding [0xAA, 0xBB].
C2_WriteKeepsBytes ==
    [][(last'.op \in WriteOps) =>
          LET c == last'.self
              o == cursor[c].offset
              w == WidthUnits(last'.op, last'.arg)
              old == BytesOf(heap, cursor, c)
              new == BytesOf(heap', cursor', c)
          IN  /\ last'.ok
              /\ \A p \in 1..Len(old) :
                    (B(p - 1) < o \/ B(p - 1) >= o + w) =>
                        (p <= Len(new) /\ new[p] = old[p])
              /\ (last'.op = "writeUint8" /\ old = <<>> /\ last'.arg = Num(170))
                    => new = <<170>>
              /\ (last'.op = "writeUint8" /\ old = <<170>> /\ o = B(1)
                    /\ last'.arg = Num(187))
                    => new = <<170, 187>>]_vars

\* C3: a call that raises an error leaves the cursor's offset, size,
\* capacity and buffer contents exactly as they were before the call.
C3_AllOrNothing ==
    [][(~last'.ok) =>
          LET c == last'.self
          IN  /\ cursor'[c].offset = cursor[c].offset
              /\ cursor'[c].size = cursor[c].size
              /\ Len(BytesOf(heap', cursor', c)) = Len(BytesOf(heap, cursor, c))
              /\ BytesOf(heap', cursor', c) = BytesOf(heap, cursor, c)]_vars

\* The value of a lowercase hexadecimal digit.
HexDigitValue(ch) == IF ch <= 57 THEN ch - 48 ELSE ch - 87

IsLowerHex(s) ==
    \A i \in 1..Len(s) : (s[i] >= 48 /\ s[i] <= 57) \/ (s[i] >= 97 /\ s[i] <= 102)

\* A byte as exactly two lowercase hexadecimal digits.
TwoHexDigits(b) ==
    LET d(n) == IF n < 10 THEN 48 + n ELSE 87 + n
    IN  <<d(b \div 16), d(b % 16)>>

RECURSIVE HexOfBytes(_)
HexOfBytes(bytes) ==
    IF bytes = <<>> THEN <<>>
    ELSE TwoHexDigits(Head(bytes)) \o HexOfBytes(Tail(bytes))

\* C4: writeHex(s) of an even-length lowercase hex string at offset 0 writes
\* len(s)/2 bytes, byte k = 16 * digit(2k) + digit(2k+1); readHex(n) returns
\* 2n characters, two lowercase hex digits per byte read, so that reading
\* back from offset 0 returns s.
C4_HexRoundTrip ==
    [][LET c == last'.self
           new == BytesOf(heap', cursor', c)
           old == BytesOf(heap, cursor, c)
       IN  /\ (last'.op = "writeHex" /\ Len(last'.arg) % 2 = 0
                 /\ IsLowerHex(last'.arg) /\ cursor[c].offset = 0) =>
                 /\ last'.ok
                 /\ last'.ret = Len(last'.arg)
                 /\ \A k \in 1..(Len(last'.arg) \div 2) :
                       new[k] = 16 * HexDigitValue(last'.arg[2 * k - 1])
                                   + HexDigitValue(last'.arg[2 * k])
           /\ (last'.op = "readHex" /\ last'.ok) =>
                 /\ Len(last'.ret) = 2 * last'.arg
                 /\ cursor[c].offset = 0 =>
                       last'.ret = HexOfBytes(SubSeq(old, 1, last'.arg))]_vars


\* C5: a.concat(b) leaves a.offset = offset before + b.size and
\* a.size = size before + b.size, whatever a.offset and a.size were.
C5_ConcatAdvances ==
    [][(last'.op = "concat") =>
          LET c == last'.self
              b == last'.arg
          IN  /\ cursor'[c].offset = cursor[c].offset + cursor[b].size
              /\ cursor'[c].size = cursor[c].size + cursor[b].size]_vars

\* The contents of the ArrayBuffers the caller holds.
HeldBytes(h, hs) == {ViewBytes(h, v) : v \in hs}

\* C6: getBuffer(start, end) with 0 <= start <= end <= capacity returns a
\* copy of exactly the bytes at [start, end), empty when start = end;
\* getBuffer() returns the bytes at [0, size); no later call on the cursor
\* changes the buffer returned.
C6_GetBufferRange ==
    [][LET c == last'.self
           old == BytesOf(heap, cursor, c)
       IN  /\ (last'.op = "getBuffer") =>
                 LET start == last'.arg[1]
                     final == last'.arg[2]
                 IN  /\ last'.ok
                     /\ (~start.given /\ ~final.given) =>
                           last'.ret = SubSeq(old, 1, ToIndex(cursor[c].size))
                     /\ (start.given /\ final.given /\ start.n <= final.n
                           /\ final.n <= B(Len(old))) =>
                           last'.ret = SubSeq(old, ToIndex(start.n) + 1,
                                              ToIndex(final.n))
                     /\ \A v \in held' : v.buffer # cursor'[c].buffer
           /\ (last'.op # "getBuffer") =>
                 HeldBytes(heap', held') = HeldBytes(heap, held)]_vars

\* C7: a successful more(length) at offset o returns a read cursor with
\* offset 0, size = capacity = length and the parent's bytes [o, o + length),
\* moves the parent to o + length and leaves the parent's buffer as it was;
\* the two cursors share no storage, and no later call on one changes a byte
\* of the other.
C7_MoreSubCursor ==
    [][LET c == last'.self
           s == Other(c)
           old == BytesOf(heap, cursor, c)
       IN  /\ cursor'[c].buffer # cursor'[s].buffer
           /\ (last'.op = "more" /\ last'.ok) =>
                 LET n == last'.arg
                     o == cursor[c].offset
                 IN  /\ last'.ret = s
                     /\ cursor'[s].offset = 0
                     /\ cursor'[s].size = B(n)
                     /\ Len(BytesOf(heap', cursor', s)) = n
                     /\ BytesOf(heap', cursor', s)
                           = SubSeq(old, ToIndex(o) + 1, ToIndex(o) + n)
                     /\ cursor'[c].offset = o + B(n)
                     /\ BytesOf(heap', cursor', c) = old
           /\ ~(last'.op = "more" /\ last'.ok) =>
                 BytesOf(heap', cursor', s) = BytesOf(heap, cursor, s)]_vars

\* a.more(1) at offset 1 of [.., 0xBB, ..]: the sub-cursor holds [0xBB] and
\* the parent stands at 2.
C7_Witness ==
    /\ last.op = "more"
    /\ last.ok
    /\ last.arg = 1
    /\ cursor["a"].offset = B(2)
    /\ BytesOf(heap, cursor, "b") = <<187>>
    /\ Len(BytesOf(heap, cursor, "a")) = 3

\* The unsigned 16-bit value of the two bytes from index i (from 0).
Uint16At(bytes, i, littleEndian) ==
    IF littleEndian THEN bytes[i + 1] + 256 * bytes[i + 2]
    ELSE 256 * bytes[i + 1] + bytes[i + 2]

\* C8: readUint16Array(length), length even, returns length/2 values, the
\* k-th the unsigned 16-bit value at offset + 2k under the active byte order,
\* and advances offset by length; readUint8Array(n) returns the n bytes at
\* [offset, offset + n) and advances offset by n.  (Runs within the capacity,
\* from a whole-byte offset.)
C8_ArrayReads ==
    [][LET c == last'.self
           n == last'.arg
           o == cursor[c].offset
           old == BytesOf(heap, cursor, c)
           fits == o % Unit = 0 /\ o + B(n) <= B(Len(old))
       IN  /\ (last'.op = "readUint16Array" /\ n % 2 = 0 /\ fits) =>
                 /\ last'.ok
                 /\ Len(last'.ret) = n \div 2
                 /\ \A k \in 0..(n \div 2 - 1) :
                       last'.ret[k + 1]
                          = Uint16At(old, ToIndex(o) + 2 * k,
                                     cursor[c].isLittleEndian)
                 /\ cursor'[c].offset = o + B(n)
           /\ (last'.op = "readUint8Array" /\ fits) =>
                 /\ last'.ok
                 /\ last'.ret = SubSeq(old, ToIndex(o) + 1, ToIndex(o) + n)
                 /\ cursor'[c].offset = o + B(n)]_vars

\* C9: in every reachable state 0 <= offset <= capacity.
C9_OffsetWithinCapacity ==
    \A c \in DOMAIN cursor :
        /\ cursor[c].offset >= 0
        /\ cursor[c].offset <= B(Len(BytesOf(heap, cursor, c)))

\* C10: in every reachable state size is at least the highest offset an
\* earlier advancing call on the cursor has reached.
C10_SizeAtLeastHighWater ==
    \A c \in DOMAIN cursor : cursor[c].size >= high[c]

IntReads ==
    {"readUint8", "readInt8", "readUint16", "readInt16", "readUint32",
     "readInt32"}

ReadWidth(op) ==
    IF op \in {"readUint8", "readInt8"} THEN 1
    ELSE IF op \in {"readUint16", "readInt16"} THEN 2
    ELSE 4

\* The values of the type an integer write or read is named after.
ValuesOf(op) ==
    IF op \in {"writeUint8", "readUint8"} THEN Uint8Values
    ELSE IF op \in {"writeInt8", "readInt8"} THEN Int8Values
    ELSE IF op \in {"writeUint16", "readUint16"} THEN Uint16Values
    ELSE IF op \in {"writeInt16", "readInt16"} THEN Int16Values
    ELSE IF op \in {"writeUint32", "readUint32"} THEN Uint32Values
    ELSE Int32Values

\* Byte k (from 0, least significant first) of v in two's complement.
WireByte(v, k) == (v \div (256 ^ k)) % 256

\* The bytes of v on the wire: least significant first when little-endian.
WireBytes(v, width, littleEndian) ==
    [i \in 1..width |->
        IF littleEndian THEN WireByte(v, i - 1) ELSE WireByte(v, width - i)]

\* A read's result is v (readUint32's is held as two 16-bit halves).
Returned(op, ret, v) ==
    IF op = "readUint32" THEN ret = [hi |-> v \div 65536, lo |-> v % 65536]
    ELSE ret = v

\* C11: for each integer type T of the write interface, each v in T's range
\* and both byte orders, writing v as T at offset 0 stores v's bytes in that
\* order, and reading type T at offset 0 over those bytes under the same
\* order returns v and leaves offset = T's width.
C11_IntegerRoundTrip ==
    [][LET c == last'.self
           op == last'.op
           little == cursor[c].isLittleEndian
           old == BytesOf(heap, cursor, c)
           new == BytesOf(heap', cursor', c)
       IN  /\ (op \in IntWrites /\ cursor[c].offset = 0) =>
                 /\ last'.ok
                 /\ SubSeq(new, 1, WidthOf(op))
                       = WireBytes(last'.arg.num, WidthOf(op), little)
           /\ (op \in IntReads /\ cursor[c].offset = 0) =>
                 \A v \in ValuesOf(op) :
                    (Len(old) >= ReadWidth(op)
                       /\ SubSeq(old, 1, ReadWidth(op))
                             = WireBytes(v, ReadWidth(op), little)) =>
                       /\ last'.ok
                       /\ Returned(op, last'.ret, v)
                       /\ cursor'[c].offset = B(ReadWidth(op))]_vars

\* A string of decimal digits, at least one.
NumericString(v) ==
    /\ v.type = "string"
    /\ v.str # <<>>
    /\ \A i \in 1..Len(v.str) : v.str[i] >= 48 /\ v.str[i] <= 57

RECURSIVE DecimalValue(_)
DecimalValue(s) ==
    IF s = <<>> THEN 0
    ELSE 10 * DecimalValue(SubSeq(s, 1, Len(s) - 1)) + (s[Len(s)] - 48)

\* C12: an integer write given a number stores it as it is, given a string
\* of digits stores its parsed value, and given anything else (null,
\* undefined, a boolean, "", a non-numeric string, an array, an object)
\* fails with the invalid-number error and changes no byte of the buffer.
C12_NumericCoercion ==
    [][(last'.op \in IntWrites) =>
          LET c == last'.self
              v == last'.arg
              w == WidthOf(last'.op)
              at == ToIndex(cursor[c].offset)
              old == BytesOf(heap, cursor, c)
              new == BytesOf(heap', cursor', c)
              stored == SubSeq(new, at + 1, at + w)
          IN  IF IsNumber(v)
              THEN last'.ok
                     /\ stored = WireBytes(v.num, w, cursor[c].isLittleEndian)
              ELSE IF NumericString(v)
              THEN last'.ok
                     /\ stored = WireBytes(DecimalValue(v.str), w,
                                           cursor[c].isLittleEndian)
              ELSE /\ ~last'.ok
                   /\ last'.ret = "Not a number"
                   /\ SubSeq(new, 1, Len(old)) = old]_vars

\* C13: more(length) throws its "more than currently allocated" error
\* exactly when offset + length > capacity and succeeds otherwise; the
\* sub-cursor returned never reaches past the parent's capacity.
C13_MoreUnderrun ==
    [][(last'.op = "more") =>
          LET c == last'.self
              n == last'.arg
              o == cursor[c].offset
              cap == Len(BytesOf(heap, cursor, c))
          IN  /\ last'.ok <=> ~(o + B(n) > B(cap))
              /\ ~last'.ok =>
                    last'.ret = "Request more than currently allocated buffer"
              /\ last'.ok =>
                    ToIndex(o) + Len(BytesOf(heap', cursor', Other(c))) <= cap]_vars

\* a.more(2) refused at offset 2 of a 3-byte buffer.
C13_Witness ==
    /\ last.op = "more"
    /\ ~last.ok
    /\ last.arg = 2
    /\ cursor["a"].offset = B(2)
    /\ Len(BytesOf(heap, cursor, "a")) = 3

\* C14: a.concat(b), a at offset o and b of size n: a's bytes [0, o) stay,
\* a's bytes [o, o + n) become b's bytes [0, n), a's capacity becomes o + n
\* when n exceeds the room capacity - o and stays otherwise, and b's buffer,
\* offset and size stay; a full 3-byte stream appended to a full 2-byte one
\* gives the 2 bytes then the 3.
C14_ConcatContents ==
    [][(last'.op = "concat") =>
          LET c == last'.self
              b == last'.arg
              o == ToIndex(cursor[c].offset)
              n == ToIndex(cursor[b].size)
              old == BytesOf(heap, cursor, c)
              new == BytesOf(heap', cursor', c)
              src == BytesOf(heap, cursor, b)
          IN  /\ last'.ok
              /\ SubSeq(new, 1, o) = SubSeq(old, 1, o)
              /\ SubSeq(new, o + 1, o + n) = SubSeq(src, 1, n)
              /\ Len(new) = IF n > Len(old) - o THEN o + n ELSE Len(old)
              /\ BytesOf(heap', cursor', b) = src
              /\ cursor'[b].buffer # cursor'[c].buffer
              /\ cursor'[b].offset = cursor[b].offset
              /\ cursor'[b].size = cursor[b].size
              /\ (Len(old) = 2 /\ o = 2 /\ Len(src) = 3 /\ n = 3) =>
                    (new = old \o src /\ cursor'[c].size = B(5))]_vars

\* b, fully written with 3 bytes, appended to a, fully written with 2.
C14_Witness ==
    /\ last.op = "concat"
    /\ last.self = "a"
    /\ last.ok
    /\ BytesOf(heap, cursor, "a") = <<170, 170, 187, 170, 187>>
    /\ BytesOf(heap, cursor, "b") = <<187, 170, 187>>
    /\ cursor["a"].offset = B(5)
    /\ cursor["b"].offset = B(3)

\* The state after a call, with stream c put back at offset o.
RewoundAfter(c, o) ==
    [heap |-> heap', cursor |-> [cursor' EXCEPT ![c].offset = o], held |-> held']

\* C15: writeTwoUint16s(v), 0 <= v < 2^32, stores the high 16 bits of v at
\* offset and the low 16 bits at offset + 2, each in the active byte order,
\* and advances offset by 4; two readUint16 calls from there give high and
\* low with high * 65536 + low = v; big-endian, the four bytes are those of
\* writeUint32(v), little-endian they differ from them when the words differ.
C15_TwoWords ==
    [][(last'.op = "writeTwoUint16s") =>
          LET c == last'.self
              v == last'.arg.num
              o == cursor[c].offset
              at == ToIndex(o)
              little == cursor[c].isLittleEndian
              new == BytesOf(heap', cursor', c)
              stored == SubSeq(new, at + 1, at + 4)
              r1 == readUint16(RewoundAfter(c, o), c)
              r2 == readUint16(r1.w, c)
              as32 == writeUint32(World, c, last'.arg)
              bytes32 == SubSeq(Bytes(as32.w, c), at + 1, at + 4)
          IN  /\ last'.ok
              /\ SubSeq(stored, 1, 2) = WireBytes(v \div 65536, 2, little)
              /\ SubSeq(stored, 3, 4) = WireBytes(v % 65536, 2, little)
              /\ cursor'[c].offset = o + B(4)
              /\ r1.ok /\ r2.ok
              /\ r1.ret = v \div 65536 /\ r2.ret = v % 65536
              /\ r1.ret * 65536 + r2.ret = v
              /\ ~little => stored = bytes32
              /\ (little /\ v \div 65536 # v % 65536) => stored # bytes32]_vars

\* writeTwoUint16s(0x0001FFFF) on a little-endian stream: FF FF 01 00 would
\* be the 32-bit write, the two words give 01 00 FF FF.
C15_Witness ==
    /\ last.op = "writeTwoUint16s"
    /\ last.ok
    /\ last.arg = Num(131071)
    /\ cursor["a"].isLittleEndian
    /\ BytesOf(heap, cursor, "a") = <<1, 0, 255, 255>>

\* C16: writeUint16(v) stores the low byte of v at offset and the high byte
\* at offset + 1 on a little-endian stream and the high byte first on a
\* big-endian one, which a new stream is; setEndian sets the flag and leaves
\* offset, size, capacity and every byte of the buffer as they were.
C16_ByteOrder ==
    [][LET c == last'.self
           at == ToIndex(cursor[c].offset)
           old == BytesOf(heap, cursor, c)
           new == BytesOf(heap', cursor', c)
       IN  /\ (last.op = "new") => ~cursor[last.self].isLittleEndian
           /\ (last'.op = "writeUint16") =>
                 LET v == last'.arg.num
                 IN  /\ last'.ok
                     /\ new[at + 1] =
                           IF cursor[c].isLittleEndian THEN v % 256 ELSE v \div 256
                     /\ new[at + 2] =
                           IF cursor[c].isLittleEndian THEN v \div 256 ELSE v % 256
           /\ (last'.op = "setEndian") =>
                 /\ last'.ok
                 /\ cursor'[c].isLittleEndian = last'.arg
                 /\ cursor'[c].offset = cursor[c].offset
                 /\ cursor'[c].size = cursor[c].size
                 /\ new = old]_vars

\* writeUint16(0x1234) on a little-endian stream: 34 12.
C16_Witness ==
    /\ last.op = "writeUint16"
    /\ last.ok
    /\ last.arg = Num(4660)
    /\ cursor["a"].isLittleEndian
    /\ BytesOf(heap, cursor, "a") = <<52, 18>>

\* C17: end() returns offset >= capacity, which is offset = capacity when
\* offset has not passed the capacity, and changes nothing; toEnd() puts
\* offset at the capacity, leaves contents, capacity and size, and end() is
\* true right after it; reset() puts offset at 0, leaves contents, capacity
\* and size, and returns the cursor it was called on.
C17_EndToEndReset ==
    [][LET c == last'.self
           o == cursor[c].offset
           old == BytesOf(heap, cursor, c)
           new == BytesOf(heap', cursor', c)
       IN  /\ (last'.op = "end") =>
                 /\ last'.ok
                 /\ last'.ret = (o >= B(Len(old)))
                 /\ (o <= B(Len(old))) => (last'.ret = (o = B(Len(old))))
                 /\ cursor' = cursor
                 /\ new = old
           /\ (last'.op = "toEnd") =>
                 /\ last'.ok
                 /\ cursor'[c].offset = B(Len(old))
                 /\ cursor'[c].size = cursor[c].size
                 /\ new = old
                 /\ end(RewoundAfter(c, cursor'[c].offset), c).ret
           /\ (last'.op = "reset") =>
                 /\ last'.ok
                 /\ last'.ret = c
                 /\ cursor'[c].offset = 0
                 /\ cursor'[c].size = cursor[c].size
                 /\ new = old]_vars

\* end() answering false one byte into a longer buffer.
C17_Witness ==
    /\ last.op = "end"
    /\ last.ok
    /\ last.ret = FALSE
    /\ cursor["a"].offset = B(1)
    /\ Len(BytesOf(heap, cursor, "a")) > 1

\* C18: a write cursor created empty and only appended to by successful
\* numeric writes, writeString, even-length writeHex and concat has
\* offset = size = capacity in every state, so end() is true and
\* getBuffer() returns the whole buffer.
C18_ExactFit ==
    LET a == cursor["a"]
        whole == getBuffer(World, "a", NoArg, NoArg)
    IN  /\ last.ok
        /\ a.offset = a.size
        /\ a.size = B(Len(BytesOf(heap, cursor, "a")))
        /\ end(World, "a").ret
        /\ whole.w.heap[whole.ret] = BytesOf(heap, cursor, "a")

\* a grown by a.concat(b) to the three bytes it ends with.
C18_Witness ==
    /\ last.op = "concat"
    /\ last.self = "a"
    /\ cursor["a"].offset = B(3)
    /\ BytesOf(heap, cursor, "a") = <<170, 187, 187>>

\* The one array the caller holds.
TheHeld(hs) == CHOOSE v \in hs : TRUE

\* s with the element at index i (from 1) replaced by b, when it has one.
WithByte(s, i, b) == [k \in 1..Len(s) |-> IF k = i THEN b ELSE s[k]]

\* C19: the array readUint8Array(n) returns is a view of the cursor's buffer
\* at [offset, offset + n): a later write that lands in that range without
\* a reallocation shows in the array; a growing write or concat gives the
\* cursor another buffer, and from then on no call changes the array.
C19_ViewAliasing ==
    [][LET c == last'.self
           at == ToIndex(cursor[c].offset)
           old == BytesOf(heap, cursor, c)
       IN  /\ (last'.op = "readUint8Array" /\ last'.ok) =>
                 LET v == TheHeld(held')
                 IN  /\ v.buffer = cursor'[c].buffer
                     /\ v.byteOffset = at
                     /\ v.length = last'.arg
                     /\ ViewBytes(heap', v) = SubSeq(old, at + 1, at + last'.arg)
           /\ (last'.op # "readUint8Array" /\ held # {}) =>
                 LET v == TheHeld(held)
                     n == TheHeld(held')
                     shared == v.buffer = cursor["a"].buffer
                     sharedAfter == n.buffer = cursor'["a"].buffer
                     seen == ViewBytes(heap, v)
                     seenAfter == ViewBytes(heap', n)
                     growing ==
                        \/ last'.op = "writeUint8" /\ at + 1 > Len(old)
                        \/ last'.op = "concat"
                              /\ ToIndex(cursor[last'.arg].size) > Len(old) - at
                 IN  /\ n.byteOffset = v.byteOffset /\ n.length = v.length
                     /\ (shared /\ c = "a" /\ last'.op = "writeUint8" /\ ~growing) =>
                           /\ sharedAfter
                           /\ seenAfter = WithByte(seen, at - v.byteOffset + 1,
                                                   last'.arg.num)
                     /\ (shared /\ c = "a" /\ growing) =>
                           (~sharedAfter /\ seenAfter = seen)
                     /\ ~shared => (~sharedAfter /\ seenAfter = seen)]_vars

\* writeUint8(0xBB) after reset() landed on the first byte of the array
\* the caller holds, and the array shows it.
C19_Witness ==
    /\ last.op = "writeUint8"
    /\ last.self = "a"
    /\ last.arg = Num(187)
    /\ cursor["a"].offset = B(1)
    /\ BytesOf(heap, cursor, "a") = <<187, 170>>
    /\ held = {[buffer |-> cursor["a"].buffer, byteOffset |-> 0, length |-> 2]}

\* The two 16-bit halves of the unsigned 32-bit value of four bytes.
Uint32At(bytes, littleEndian) ==
    IF littleEndian
    THEN [hi |-> Uint16At(bytes, 2, TRUE), lo |-> Uint16At(bytes, 0, TRUE)]
    ELSE [hi |-> Uint16At(bytes, 0, FALSE), lo |-> Uint16At(bytes, 2, FALSE)]

\* C20: the cursor more() returns is big-endian at offset 0 whatever the
\* parent's byte order; a 16- or 32-bit read on it decodes the bytes
\* big-endian, which for a little-endian parent differs from the parent's
\* own read of those bytes, until setEndian is called on the sub-cursor.
C20_SubCursorBigEndian ==
    [][(last'.op = "more" /\ last'.ok) =>
          LET c == last'.self
              s == Other(c)
              o == cursor[c].offset
              n == last'.arg
              after == RewoundAfter(c, o)
              sub == BytesOf(heap', cursor', s)
              flipped == setEndian(after, s, cursor[c].isLittleEndian).w
          IN  /\ ~cursor'[s].isLittleEndian
              /\ cursor'[s].offset = 0
              /\ cursor'[c].isLittleEndian = cursor[c].isLittleEndian
              /\ n = 2 =>
                    /\ readUint16(after, s).ret = Uint16At(sub, 0, FALSE)
                    /\ (cursor[c].isLittleEndian /\ sub[1] # sub[2]) =>
                          readUint16(after, s).ret # readUint16(after, c).ret
                    /\ readUint16(flipped, s).ret = readUint16(after, c).ret
              /\ n = 4 =>
                    /\ readUint32(after, s).ret = Uint32At(sub, FALSE)
                    /\ (cursor[c].isLittleEndian /\ sub # Reverse(sub)) =>
                          readUint32(after, s).ret # readUint32(after, c).ret
                    /\ readUint32(flipped, s).ret = readUint32(after, c).ret]_vars

\* b = a.more(2) from a little-endian a over the bytes 34 12: b is
\* big-endian.
C20_Witness ==
    /\ last.op = "more"
    /\ last.ok
    /\ last.arg = 2
    /\ cursor["a"].isLittleEndian
    /\ ~cursor["b"].isLittleEndian
    /\ BytesOf(heap, cursor, "b") = <<52, 18>>

=============================================================================
